---- MODULE Spec2Model ----
(***************************************************************************)
(* Model of log-export-datecalculator.py: the Lambda handler that samples  *)
(* the UTC wall clock, truncates it to midnight, subtracts one day and     *)
(* renders the two instants and an S3 path component as strings.           *)
(*                                                                         *)
(* Strings are sequences of one-character strings, so that formatting and  *)
(* parsing are real conversions.  A datetime is the record of fields that  *)
(* Python's datetime carries.                                              *)
(***************************************************************************)
EXTENDS Integers, Sequences, FiniteSets, TLC

(* ------------------------------ bounds --------------------------------- *)
\* number of execution environments the platform may run side by side
NumInvocations == 2
\* how many days the wall clock may advance past the day it starts in
MaxDays == 2
\* how many invocations the platform starts in one run
MaxCalls == 2

(* ----------------- calendar arithmetic (datetime module) --------------- *)
\* variant: the Julian rule, every fourth year
_is_leap_julian(year) == year % 4 = 0

\* year % 4 == 0 and (year % 100 != 0 or year % 400 == 0)
_is_leap(year) == year % 4 = 0 /\ (year % 100 # 0 \/ year % 400 = 0)

_DAYS_IN_MONTH == <<31, 28, 31, 30, 31, 30, 31, 31, 30, 31, 30, 31>>

RECURSIVE _DAYS_BEFORE_MONTH(_)
_DAYS_BEFORE_MONTH(month) ==
    IF month = 1 THEN 0 ELSE _DAYS_BEFORE_MONTH(month - 1) + _DAYS_IN_MONTH[month - 1]

_days_before_year(year) ==
    LET y == year - 1 IN y * 365 + (y \div 4) - (y \div 100) + (y \div 400)

_days_in_month(year, month) ==
    IF month = 2 /\ _is_leap(year) THEN 29 ELSE _DAYS_IN_MONTH[month]

_days_before_month(year, month) ==
    _DAYS_BEFORE_MONTH(month) + (IF month > 2 /\ _is_leap(year) THEN 1 ELSE 0)

_ymd2ord(year, month, day) ==
    _days_before_year(year) + _days_before_month(year, month) + day

_DI400Y == _days_before_year(401)
_DI100Y == _days_before_year(101)
_DI4Y == _days_before_year(5)

\* ordinal -> (year, month, day), considering 01-Jan-0001 as day 1
_ord2ymd(ordinal) ==
    LET n0 == ordinal - 1
        n400 == n0 \div _DI400Y
        r400 == n0 % _DI400Y
        n100 == r400 \div _DI100Y
        r100 == r400 % _DI100Y
        n4 == r100 \div _DI4Y
        r4 == r100 % _DI4Y
        n1 == r4 \div 365
        n == r4 % 365
        year == n400 * 400 + 1 + n100 * 100 + n4 * 4 + n1
        leapyear == n1 = 3 /\ (n4 # 24 \/ n100 = 3)
        month0 == (n + 50) \div 32
        preceding0 == _DAYS_BEFORE_MONTH(month0)
                        + (IF month0 > 2 /\ leapyear THEN 1 ELSE 0)
        month == IF preceding0 > n THEN month0 - 1 ELSE month0
        preceding == IF preceding0 > n
                     THEN preceding0 - (_DAYS_IN_MONTH[month]
                                          + (IF month = 2 /\ leapyear THEN 1 ELSE 0))
                     ELSE preceding0
    IN  IF n1 = 4 \/ n100 = 4
        THEN [year |-> year - 1, month |-> 12, day |-> 31]
        ELSE [year |-> year, month |-> month, day |-> n - preceding + 1]

MINORD == 1
MAXORD == _ymd2ord(9999, 12, 31)

(* ------------------------------ datetime ------------------------------- *)
NoDatetime ==
    [year |-> 0, month |-> 0, day |-> 0,
     hour |-> 0, minute |-> 0, second |-> 0, microsecond |-> 0]

\* datetime(1970, 1, 1).toordinal(), the day the clock counts from
EPOCH_ORD == _ymd2ord(1970, 1, 1)

\* the instant sod seconds and us microseconds into day `day` since the epoch,
\* as the aware UTC datetime that datetime.now(timezone.utc) builds
FromTimestamp(day, sod, us) ==
    LET ymd == _ord2ymd(EPOCH_ORD + day)
    IN  [year |-> ymd.year, month |-> ymd.month, day |-> ymd.day,
         hour |-> sod \div 3600, minute |-> (sod % 3600) \div 60,
         second |-> sod % 60, microsecond |-> us]

toordinal(dt) == _ymd2ord(dt.year, dt.month, dt.day)

\* variant: replace(hour=0, minute=0, microsecond=0), the seconds kept
ReplaceKeepsSecond(dt) ==
    [dt EXCEPT !.hour = 0, !.minute = 0, !.microsecond = 0]

\* variant: replace(hour=0), only the hour cleared
ReplaceHourOnly(dt) == [dt EXCEPT !.hour = 0]

\* datetime.replace(hour=0, minute=0, second=0, microsecond=0)
ReplaceMidnight(dt) ==
    [dt EXCEPT !.hour = 0, !.minute = 0, !.second = 0, !.microsecond = 0]

\* variant: the day field decremented, a month taken to have 30 days
SubDaysNaive(dt, days) ==
    IF dt.day > days
    THEN [ok |-> TRUE, value |-> [dt EXCEPT !.day = @ - days]]
    ELSE IF dt.month > 1
         THEN [ok |-> TRUE,
               value |-> [dt EXCEPT !.month = @ - 1, !.day = 30 + dt.day - days]]
         ELSE [ok |-> TRUE,
               value |-> [dt EXCEPT !.year = @ - 1, !.month = 12,
                                    !.day = 30 + dt.day - days]]

\* variant: dt.replace(day=dt.day - days), which raises ValueError for day 0
SubDaysReplace(dt, days) ==
    IF dt.day > days
    THEN [ok |-> TRUE, value |-> [dt EXCEPT !.day = @ - days]]
    ELSE [ok |-> FALSE, value |-> NoDatetime]

\* datetime.__sub__(timedelta(days=days)): the fields become a timedelta over
\* the ordinal, the difference is normalised, and a day outside
\* 1..MAXORD raises OverflowError
SubDays(dt, days) ==
    LET o == toordinal(dt) - days
        ymd == _ord2ymd(o)
    IN  IF o < MINORD \/ o > MAXORD
        THEN [ok |-> FALSE, value |-> NoDatetime]
        ELSE [ok |-> TRUE,
              value |-> [dt EXCEPT !.year = ymd.year, !.month = ymd.month,
                                   !.day = ymd.day]]

(* ------------------------------ strings -------------------------------- *)
Digits == <<"0", "1", "2", "3", "4", "5", "6", "7", "8", "9">>

RECURSIVE Pad(_, _)
\* decimal rendering of n >= 0, zero-padded to at least width characters
Pad(n, width) ==
    IF n < 10 /\ width <= 1 THEN <<Digits[n + 1]>>
    ELSE Pad(n \div 10, width - 1) \o <<Digits[(n % 10) + 1]>>

\* one strftime directive
Directive(c, dt) ==
    CASE c = "Y" -> Pad(dt.year, 4)
      [] c = "m" -> Pad(dt.month, 2)
      [] c = "d" -> Pad(dt.day, 2)
      [] c = "H" -> Pad(dt.hour, 2)
      [] c = "M" -> Pad(dt.minute, 2)
      [] c = "S" -> Pad(dt.second, 2)
      [] OTHER -> <<"%", c>>

RECURSIVE strftime(_, _)
strftime(dt, fmt) ==
    IF fmt = <<>> THEN <<>>
    ELSE IF Head(fmt) = "%" /\ Len(fmt) >= 2
         THEN Directive(fmt[2], dt) \o strftime(dt, SubSeq(fmt, 3, Len(fmt)))
         ELSE <<Head(fmt)>> \o strftime(dt, Tail(fmt))

\* '%Y-%m-%dT%H:%M:%SZ'
ISO_FORMAT ==
    <<"%", "Y", "-", "%", "m", "-", "%", "d", "T",
      "%", "H", ":", "%", "M", ":", "%", "S", "Z">>

\* '%Y/%m/%d'
PATH_FORMAT == <<"%", "Y", "/", "%", "m", "/", "%", "d">>

(* ------------------- reading the strings back (consumer) --------------- *)
IsDigit(c) == \E k \in 1..10 : Digits[k] = c
DigitValue(c) == (CHOOSE k \in 1..10 : Digits[k] = c) - 1

RECURSIVE Number(_)
Number(s) ==
    IF s = <<>> THEN 0
    ELSE Number(SubSeq(s, 1, Len(s) - 1)) * 10 + DigitValue(s[Len(s)])

\* s has the shape DDDD-DD-DDTDD:DD:DDZ
IsISO(s) ==
    /\ Len(s) = 20
    /\ \A k \in {1, 2, 3, 4, 6, 7, 9, 10, 12, 13, 15, 16, 18, 19} : IsDigit(s[k])
    /\ s[5] = "-" /\ s[8] = "-" /\ s[11] = "T"
    /\ s[14] = ":" /\ s[17] = ":" /\ s[20] = "Z"

\* the fields an ISO-8601 reader takes from such a string
ParseISO(s) ==
    [year |-> Number(SubSeq(s, 1, 4)), month |-> Number(SubSeq(s, 6, 7)),
     day |-> Number(SubSeq(s, 9, 10)), hour |-> Number(SubSeq(s, 12, 13)),
     minute |-> Number(SubSeq(s, 15, 16)), second |-> Number(SubSeq(s, 18, 19)),
     microsecond |-> 0]

\* s has the shape DDDD/DD/DD
IsPath(s) ==
    /\ Len(s) = 10
    /\ \A k \in {1, 2, 3, 4, 6, 7, 9, 10} : IsDigit(s[k])
    /\ s[5] = "/" /\ s[8] = "/"

\* days from 1970-01-01 to the civil date y-m-d (era/day-of-era arithmetic,
\* independent of the ordinal arithmetic above)
CivilDays(y, m, d) ==
    LET yy == IF m <= 2 THEN y - 1 ELSE y
        era == yy \div 400
        yoe == yy - era * 400
        mp == IF m > 2 THEN m - 3 ELSE m + 9
        doy == ((153 * mp + 2) \div 5) + d - 1
        doe == yoe * 365 + (yoe \div 4) - (yoe \div 100) + doy
    IN  era * 146097 + doe - 719468

\* the number of days of month m of year y
MonthLength(y, m) ==
    IF m = 12 THEN 31 ELSE CivilDays(y, m + 1, 1) - CivilDays(y, m, 1)

\* the fields name an instant that exists
ValidFields(f) ==
    /\ f.year \in 1..9999 /\ f.month \in 1..12
    /\ f.day \in 1..MonthLength(f.year, f.month)
    /\ f.hour \in 0..23 /\ f.minute \in 0..59 /\ f.second \in 0..59

DayOf(f) == CivilDays(f.year, f.month, f.day)
SecondOfDay(f) == f.hour * 3600 + f.minute * 60 + f.second

\* epoch seconds of a minus epoch seconds of b, taken as a day part and a
\* second part so that no intermediate value leaves 32 bits
SecondsBetween(a, b) ==
    (DayOf(a) - DayOf(b)) * (24 * 60 * 60) + (SecondOfDay(a) - SecondOfDay(b))


(* ------------------------- json.dumps(response) ------------------------ *)
KEY_TODAY == <<"t", "o", "d", "a", "y">>
KEY_YESTERDAY == <<"y", "e", "s", "t", "e", "r", "d", "a", "y">>
KEY_YESTERDAY_PATH ==
    <<"y", "e", "s", "t", "e", "r", "d", "a", "y", "_", "p", "a", "t", "h">>

Quoted(s) == <<"\"">> \o s \o <<"\"">>

\* one "key": "value" member at indent 2
Member(key, value) == <<" ", " ">> \o Quoted(key) \o <<":", " ">> \o Quoted(value)

\* json.dumps(response, indent=2): keys in insertion order
JsonDumps(r) ==
    <<"{", "\n">> \o Member(KEY_TODAY, r.today) \o <<",", "\n">>
      \o Member(KEY_YESTERDAY, r.yesterday) \o <<",", "\n">>
      \o Member(KEY_YESTERDAY_PATH, r.yesterday_path) \o <<"\n", "}">>

(* ------------------------------ the state ------------------------------ *)
VARIABLES
    clock,              \* the UTC wall clock: [day, sod, us] since the epoch
    lastDay,            \* the last day the clock reaches in this run
    concurrency,        \* execution environments the platform runs in parallel
    payloads,           \* the <<event, context>> pairs the callers send
    calls,              \* invocations started so far
    pc,                 \* per environment: the handler line about to run
    event, context,     \* per environment: the handler's arguments
    now_utc, today_midnight, yesterday_midnight,
    today_iso, yesterday_iso, yesterday_path,
    response,           \* per environment: the handler's locals
    samples,            \* per environment: the clock values the running call has read
    stdout,             \* the log lines printed, in order
    returned            \* what the platform got back: one entry per finished call

locals == <<now_utc, today_midnight, yesterday_midnight,
            today_iso, yesterday_iso, yesterday_path, response, samples>>

vars == <<clock, lastDay, concurrency, payloads, calls, pc, event, context, locals,
          stdout, returned>>

Invocations == 1..NumInvocations

\* opaque arguments; a scheduled event carries a timestamp of its own
Events == {[time |-> <<>>], [time |-> strftime(FromTimestamp(_ymd2ord(2020, 1, 1) - EPOCH_ORD, 0, 0), ISO_FORMAT)]}
Contexts == {[aws_request_id |-> "a"], [aws_request_id |-> "b"]}

NoEvent == [time |-> <<>>]
NoContext == [aws_request_id |-> ""]
NoResponse == [today |-> <<>>, yesterday |-> <<>>, yesterday_path |-> <<>>]

\* the days a run's clock may start in: each is shortly before a month, year,
\* leap-day or century boundary, or at the epoch the system clock starts from
StartDates ==
    { <<1970, 1, 1>>, <<2000, 2, 28>>, <<2024, 2, 28>>, <<2024, 12, 30>>,
      <<2025, 2, 27>>, <<2025, 4, 29>>, <<2025, 6, 14>>, <<2025, 7, 30>>,
      <<2100, 2, 27>> }

StartDays == { _ymd2ord(d[1], d[2], d[3]) - EPOCH_ORD : d \in StartDates }

\* the times of day at which the clock is observed
TimesOfDay ==
    { [sod |-> 0, us |-> 0], [sod |-> 1, us |-> 0],
      [sod |-> 45296, us |-> 789012], [sod |-> 86399, us |-> 999999] }

Instant(d, tod) == [day |-> d, sod |-> tod.sod, us |-> tod.us]

Before(a, b) ==
    \/ a.day < b.day
    \/ a.day = b.day /\ a.sod < b.sod
    \/ a.day = b.day /\ a.sod = b.sod /\ a.us < b.us

TypeOK ==
    /\ clock.day <= lastDay
    /\ calls \in 0..MaxCalls
    /\ concurrency \in Invocations
    /\ \A i \in Invocations : Len(samples[i]) <= 1

InitLocals ==
    /\ pc = [i \in Invocations |-> "idle"]
    /\ event = [i \in Invocations |-> NoEvent]
    /\ context = [i \in Invocations |-> NoContext]
    /\ now_utc = [i \in Invocations |-> NoDatetime]
    /\ today_midnight = [i \in Invocations |-> NoDatetime]
    /\ yesterday_midnight = [i \in Invocations |-> NoDatetime]
    /\ today_iso = [i \in Invocations |-> <<>>]
    /\ yesterday_iso = [i \in Invocations |-> <<>>]
    /\ yesterday_path = [i \in Invocations |-> <<>>]
    /\ response = [i \in Invocations |-> NoResponse]
    /\ samples = [i \in Invocations |-> <<>>]
    /\ calls = 0
    /\ stdout = <<>>
    /\ returned = {}

\* what the scheduled rule sends
ScheduledPayload ==
    <<[time |-> strftime(FromTimestamp(_ymd2ord(2020, 1, 1) - EPOCH_ORD, 0, 0), ISO_FORMAT)],
      [aws_request_id |-> "a"]>>

\* the scheduled rule calls one execution environment; the clock starts
\* anywhere in a start day
Init ==
    /\ \E d \in StartDays, tod \in TimesOfDay :
          /\ clock = Instant(d, tod)
          /\ lastDay = d + MaxDays
    /\ concurrency = 1
    /\ payloads = {ScheduledPayload}
    /\ InitLocals

\* the days a run with arbitrary callers starts in
ArgsStartDays == { _ymd2ord(2025, 6, 14) - EPOCH_ORD }

\* callers send any event and any context to one execution environment;
\* the run has one midnight in it
InitArgs ==
    /\ \E d \in ArgsStartDays, tod \in TimesOfDay :
          /\ clock = Instant(d, tod)
          /\ lastDay = d + 1
    /\ concurrency = 1
    /\ payloads = Events \X Contexts
    /\ InitLocals

\* the days a run with parallel environments starts in
ConcStartDays ==
    { _ymd2ord(2024, 2, 28) - EPOCH_ORD, _ymd2ord(2024, 12, 31) - EPOCH_ORD }

\* every execution environment may run; the run has one midnight in it
InitConc ==
    /\ \E d \in ConcStartDays, tod \in TimesOfDay :
          /\ clock = Instant(d, tod)
          /\ lastDay = d + 1
    /\ concurrency = NumInvocations
    /\ payloads = {ScheduledPayload}
    /\ InitLocals

(* ------------------------------ the clock ------------------------------ *)
\* the wall clock advances, at any point between two handler steps
Tick ==
    /\ \E d \in clock.day..lastDay, tod \in TimesOfDay :
          /\ Before(clock, Instant(d, tod))
          /\ clock' = Instant(d, tod)
    /\ UNCHANGED <<lastDay, concurrency, payloads, calls, pc, event, context, locals,
                   stdout, returned>>

(* ----------------------------- the handler ----------------------------- *)
\* the platform calls lambda_handler(event, context) in environment i
Invoke(i) ==
    /\ pc[i] = "idle"
    /\ i <= concurrency
    /\ calls < MaxCalls
    /\ calls' = calls + 1
    /\ \E p \in payloads :
          /\ event' = [event EXCEPT ![i] = p[1]]
          /\ context' = [context EXCEPT ![i] = p[2]]
    /\ pc' = [pc EXCEPT ![i] = "now"]
    /\ UNCHANGED <<clock, lastDay, concurrency, payloads, locals, stdout, returned>>

\* variant: the event's own timestamp is taken for the current time when the
\* event carries one
NowFromEvent(i) ==
    /\ pc[i] = "now"
    /\ now_utc' = [now_utc EXCEPT ![i] =
                      IF IsISO(event[i].time) THEN ParseISO(event[i].time)
                      ELSE FromTimestamp(clock.day, clock.sod, clock.us)]
    /\ samples' = [samples EXCEPT ![i] = Append(@, clock)]
    /\ pc' = [pc EXCEPT ![i] = "truncate"]
    /\ UNCHANGED <<clock, lastDay, concurrency, payloads, calls, event, context,
                   today_midnight, yesterday_midnight, today_iso, yesterday_iso,
                   yesterday_path, response, stdout, returned>>

\* line 40: now_utc = datetime.now(timezone.utc)
Now(i) ==
    /\ pc[i] = "now"
    /\ now_utc' = [now_utc EXCEPT ![i] = FromTimestamp(clock.day, clock.sod, clock.us)]
    /\ samples' = [samples EXCEPT ![i] = Append(@, clock)]
    /\ pc' = [pc EXCEPT ![i] = "truncate"]
    /\ UNCHANGED <<clock, lastDay, concurrency, payloads, calls, event, context,
                   today_midnight, yesterday_midnight, today_iso, yesterday_iso,
                   yesterday_path, response, stdout, returned>>

\* variant: today_midnight is a module-level global that every environment
\* of the process shares
TruncateShared(i) ==
    /\ pc[i] = "truncate"
    /\ today_midnight' = [j \in Invocations |-> ReplaceMidnight(now_utc[i])]
    /\ pc' = [pc EXCEPT ![i] = "subtract"]
    /\ UNCHANGED <<clock, lastDay, concurrency, payloads, calls, event, context, now_utc,
                   yesterday_midnight, today_iso, yesterday_iso, yesterday_path,
                   response, samples, stdout, returned>>

\* line 41: today_midnight = now_utc.replace(hour=0, minute=0, second=0, microsecond=0)
Truncate(i) ==
    /\ pc[i] = "truncate"
    /\ today_midnight' = [today_midnight EXCEPT ![i] = ReplaceMidnight(now_utc[i])]
    /\ pc' = [pc EXCEPT ![i] = "subtract"]
    /\ UNCHANGED <<clock, lastDay, concurrency, payloads, calls, event, context, now_utc,
                   yesterday_midnight, today_iso, yesterday_iso, yesterday_path,
                   response, samples, stdout, returned>>

\* variant: yesterday_midnight = now_utc - timedelta(days=1)
SubtractFromNow(i) ==
    /\ pc[i] = "subtract"
    /\ LET r == SubDays(now_utc[i], 1)
       IN  /\ yesterday_midnight' = [yesterday_midnight EXCEPT ![i] = r.value]
           /\ pc' = [pc EXCEPT ![i] = IF r.ok THEN "format_today" ELSE "raised"]
    /\ UNCHANGED <<clock, lastDay, concurrency, payloads, calls, event, context, now_utc,
                   today_midnight, today_iso, yesterday_iso, yesterday_path,
                   response, samples, stdout, returned>>

\* line 44: yesterday_midnight = today_midnight - timedelta(days=1)
Subtract(i) ==
    /\ pc[i] = "subtract"
    /\ LET r == SubDays(today_midnight[i], 1)
       IN  /\ yesterday_midnight' = [yesterday_midnight EXCEPT ![i] = r.value]
           /\ pc' = [pc EXCEPT ![i] = IF r.ok THEN "format_today" ELSE "raised"]
    /\ UNCHANGED <<clock, lastDay, concurrency, payloads, calls, event, context, now_utc,
                   today_midnight, today_iso, yesterday_iso, yesterday_path,
                   response, samples, stdout, returned>>

\* line 47: today_iso = today_midnight.strftime('%Y-%m-%dT%H:%M:%SZ')
FormatToday(i) ==
    /\ pc[i] = "format_today"
    /\ today_iso' = [today_iso EXCEPT ![i] = strftime(today_midnight[i], ISO_FORMAT)]
    /\ pc' = [pc EXCEPT ![i] = "format_yesterday"]
    /\ UNCHANGED <<clock, lastDay, concurrency, payloads, calls, event, context, now_utc,
                   today_midnight, yesterday_midnight, yesterday_iso,
                   yesterday_path, response, samples, stdout, returned>>

\* line 48: yesterday_iso = yesterday_midnight.strftime('%Y-%m-%dT%H:%M:%SZ')
FormatYesterday(i) ==
    /\ pc[i] = "format_yesterday"
    /\ yesterday_iso' = [yesterday_iso EXCEPT ![i] = strftime(yesterday_midnight[i], ISO_FORMAT)]
    /\ pc' = [pc EXCEPT ![i] = "format_path"]
    /\ UNCHANGED <<clock, lastDay, concurrency, payloads, calls, event, context, now_utc,
                   today_midnight, yesterday_midnight, today_iso,
                   yesterday_path, response, samples, stdout, returned>>

\* variant: yesterday_path = today_midnight.strftime('%Y/%m/%d')
FormatPathToday(i) ==
    /\ pc[i] = "format_path"
    /\ yesterday_path' = [yesterday_path EXCEPT ![i] = strftime(today_midnight[i], PATH_FORMAT)]
    /\ pc' = [pc EXCEPT ![i] = "response"]
    /\ UNCHANGED <<clock, lastDay, concurrency, payloads, calls, event, context, now_utc,
                   today_midnight, yesterday_midnight, today_iso,
                   yesterday_iso, response, samples, stdout, returned>>

\* variant: the path is taken from a second reading of the clock,
\* (datetime.now(timezone.utc) - timedelta(days=1)).strftime('%Y/%m/%d')
FormatPathResample(i) ==
    /\ pc[i] = "format_path"
    /\ yesterday_path' =
          [yesterday_path EXCEPT ![i] =
              strftime(SubDays(FromTimestamp(clock.day, clock.sod, clock.us), 1).value,
                       PATH_FORMAT)]
    /\ samples' = [samples EXCEPT ![i] = Append(@, clock)]
    /\ pc' = [pc EXCEPT ![i] = "response"]
    /\ UNCHANGED <<clock, lastDay, concurrency, payloads, calls, event, context, now_utc,
                   today_midnight, yesterday_midnight, today_iso,
                   yesterday_iso, response, stdout, returned>>

\* line 51: yesterday_path = yesterday_midnight.strftime('%Y/%m/%d')
FormatPath(i) ==
    /\ pc[i] = "format_path"
    /\ yesterday_path' = [yesterday_path EXCEPT ![i] = strftime(yesterday_midnight[i], PATH_FORMAT)]
    /\ pc' = [pc EXCEPT ![i] = "response"]
    /\ UNCHANGED <<clock, lastDay, concurrency, payloads, calls, event, context, now_utc,
                   today_midnight, yesterday_midnight, today_iso,
                   yesterday_iso, response, samples, stdout, returned>>

\* lines 54-58: response = {'today': ..., 'yesterday': ..., 'yesterday_path': ...}
BuildResponse(i) ==
    /\ pc[i] = "response"
    /\ response' = [response EXCEPT ![i] =
                       [today |-> today_iso[i], yesterday |-> yesterday_iso[i],
                        yesterday_path |-> yesterday_path[i]]]
    /\ pc' = [pc EXCEPT ![i] = "print"]
    /\ UNCHANGED <<clock, lastDay, concurrency, payloads, calls, event, context, now_utc,
                   today_midnight, yesterday_midnight, today_iso,
                   yesterday_iso, yesterday_path, samples, stdout, returned>>

\* line 61: print(f"Date calculation result: {json.dumps(response, indent=2)}")
PrintResult(i) ==
    /\ pc[i] = "print"
    /\ stdout' = Append(stdout, JsonDumps(response[i]))
    /\ pc' = [pc EXCEPT ![i] = "return"]
    /\ UNCHANGED <<clock, lastDay, concurrency, payloads, calls, event, context, locals,
                   returned>>

\* line 63: return response; the frame and its locals are gone afterwards
Return(i) ==
    /\ pc[i] = "return"
    /\ returned' = returned \cup
          {[event |-> event[i], context |-> context[i],
            samples |-> samples[i], response |-> response[i]]}
    /\ pc' = [pc EXCEPT ![i] = "idle"]
    /\ event' = [event EXCEPT ![i] = NoEvent]
    /\ context' = [context EXCEPT ![i] = NoContext]
    /\ now_utc' = [now_utc EXCEPT ![i] = NoDatetime]
    /\ today_midnight' = [today_midnight EXCEPT ![i] = NoDatetime]
    /\ yesterday_midnight' = [yesterday_midnight EXCEPT ![i] = NoDatetime]
    /\ today_iso' = [today_iso EXCEPT ![i] = <<>>]
    /\ yesterday_iso' = [yesterday_iso EXCEPT ![i] = <<>>]
    /\ yesterday_path' = [yesterday_path EXCEPT ![i] = <<>>]
    /\ response' = [response EXCEPT ![i] = NoResponse]
    /\ samples' = [samples EXCEPT ![i] = <<>>]
    /\ UNCHANGED <<clock, lastDay, concurrency, payloads, calls, stdout>>

Step(i) ==
    \/ Invoke(i)
    \/ Now(i)
    \/ Truncate(i)
    \/ Subtract(i)
    \/ FormatToday(i)
    \/ FormatYesterday(i)
    \/ FormatPath(i)
    \/ BuildResponse(i)
    \/ PrintResult(i)
    \/ Return(i)

Next == Tick \/ \E i \in Invocations : Step(i)

Spec == Init /\ [][Next]_vars

SpecArgs == InitArgs /\ [][Next]_vars

SpecConc == InitConc /\ [][Next]_vars


(* ------------------------------- claims -------------------------------- *)
\* the instant a finished call sampled, and what its strings denote
SampleOf(r) == r.samples[1]
TodayOf(r) == ParseISO(r.response.today)
YesterdayOf(r) == ParseISO(r.response.yesterday)

WellFormed(r) ==
    /\ IsISO(r.response.today) /\ ValidFields(TodayOf(r))
    /\ IsISO(r.response.yesterday) /\ ValidFields(YesterdayOf(r))

\* C1: for every sampled instant, 'yesterday' and 'today' denote UTC instants
\* exactly 86400 seconds apart, yesterday strictly the earlier one.
C1_ExactlyOneDayApart ==
    \A r \in returned :
        /\ WellFormed(r)
        /\ SecondsBetween(TodayOf(r), YesterdayOf(r)) = 86400
        /\ DayOf(YesterdayOf(r)) < DayOf(TodayOf(r))

\* a call that sampled the clock late on a 29 February has returned
C1_Witness ==
    \E r \in returned :
        /\ SampleOf(r).day = CivilDays(2024, 2, 29)
        /\ SampleOf(r).sod = 86399

\* C2: 'today' is the string YYYY-MM-DDT00:00:00Z of the midnight that begins
\* the sampled instant's own UTC day: time-of-day 00:00:00, the date of t,
\* and today <= t < today + 24h.
C2_TodayIsMidnightOfSampleDay ==
    \A r \in returned :
        LET t == SampleOf(r)
            today == TodayOf(r)
        IN  /\ IsISO(r.response.today) /\ ValidFields(today)
            /\ today.hour = 0 /\ today.minute = 0 /\ today.second = 0
            /\ SubSeq(r.response.today, 11, 20) =
                  <<"T", "0", "0", ":", "0", "0", ":", "0", "0", "Z">>
            /\ DayOf(today) = t.day
            /\ (t.day - DayOf(today)) * (24 * 60 * 60) + t.sod \in 0..(24 * 60 * 60 - 1)

\* a call that sampled the clock in the last microsecond of a day has returned
C2_Witness ==
    \E r \in returned :
        /\ SampleOf(r).sod = 86399 /\ SampleOf(r).us = 999999
        /\ SampleOf(r).day = CivilDays(2025, 6, 15)

\* C3: 'yesterday_path' is the year, month and day of 'yesterday' written
\* YYYY/MM/DD, zero-padded, '/'-separated; the two never name different dates.
C3_PathIsYesterdayDate ==
    \A r \in returned :
        LET y == r.response.yesterday
            path == r.response.yesterday_path
        IN  /\ IsISO(y) /\ IsPath(path)
            /\ path = SubSeq(y, 1, 4) \o <<"/">> \o SubSeq(y, 6, 7)
                        \o <<"/">> \o SubSeq(y, 9, 10)
            /\ Number(SubSeq(path, 1, 4)) = YesterdayOf(r).year
            /\ Number(SubSeq(path, 6, 7)) = YesterdayOf(r).month
            /\ Number(SubSeq(path, 9, 10)) = YesterdayOf(r).day

\* a call whose yesterday has a one-digit month and a one-digit day has returned
C3_Witness ==
    \E r \in returned :
        /\ SampleOf(r).day = CivilDays(1970, 1, 2)
        /\ Len(r.response.yesterday_path) = 10


LeapYear(y) == (y % 4 = 0 /\ y % 100 # 0) \/ y % 400 = 0

LastDayOfMonth(y, m) ==
    CASE m \in {4, 6, 9, 11} -> 30
      [] m = 2 -> IF LeapYear(y) THEN 29 ELSE 28
      [] OTHER -> 31

\* C4: subtracting one day crosses month, year and leap-year boundaries: on
\* the first of a month 'yesterday' is the last day of the preceding month
\* (29 February in a leap year, 28 otherwise), on 1 January it is 31 December
\* of the year before; 2025-03-01, 2024-03-01 and 2025-01-01 give 2025-02-28,
\* 2024-02-29 and 2024-12-31, with 'yesterday_path' matching.
C4_BoundariesCrossed ==
    \A r \in returned :
        LET t == SampleOf(r)
            today == TodayOf(r)
            y == YesterdayOf(r)
        IN  /\ (DayOf(today) = t.day /\ today.day = 1 /\ today.month > 1) =>
                  /\ y.year = today.year /\ y.month = today.month - 1
                  /\ y.day = LastDayOfMonth(y.year, y.month)
            /\ (DayOf(today) = t.day /\ today.day = 1 /\ today.month = 1) =>
                  /\ y.year = today.year - 1 /\ y.month = 12 /\ y.day = 31
            /\ t.day = CivilDays(2025, 3, 1) =>
                  /\ r.response.today = 
                        <<"2", "0", "2", "5", "-", "0", "3", "-", "0", "1",
                           "T", "0", "0", ":", "0", "0", ":", "0", "0", "Z">>
                  /\ r.response.yesterday = 
                        <<"2", "0", "2", "5", "-", "0", "2", "-", "2", "8",
                           "T", "0", "0", ":", "0", "0", ":", "0", "0", "Z">>
                  /\ r.response.yesterday_path = 
                        <<"2", "0", "2", "5", "/", "0", "2", "/", "2", "8">>
            /\ t.day = CivilDays(2024, 3, 1) =>
                  /\ r.response.yesterday = 
                        <<"2", "0", "2", "4", "-", "0", "2", "-", "2", "9",
                           "T", "0", "0", ":", "0", "0", ":", "0", "0", "Z">>
                  /\ r.response.yesterday_path = 
                        <<"2", "0", "2", "4", "/", "0", "2", "/", "2", "9">>
            /\ t.day = CivilDays(2025, 1, 1) =>
                  /\ r.response.yesterday = 
                        <<"2", "0", "2", "4", "-", "1", "2", "-", "3", "1",
                           "T", "0", "0", ":", "0", "0", ":", "0", "0", "Z">>
                  /\ r.response.yesterday_path = 
                        <<"2", "0", "2", "4", "/", "1", "2", "/", "3", "1">>

\* a call that sampled the clock on 1 March of a century year that is not a
\* leap year has returned
C4_Witness ==
    \E r \in returned :
        /\ SampleOf(r).day = CivilDays(2100, 3, 1)
        /\ TodayOf(r).day = 1

\* C5: the time of day of the sampled instant does not affect the result: two
\* calls whose samples lie in the same UTC day return identical records.
C5_TimeOfDayIrrelevant ==
    \A r1, r2 \in returned :
        SampleOf(r1).day = SampleOf(r2).day => r1.response = r2.response

\* two calls have returned that sampled 00:00:01 and 23:59:59 of 2025-06-15
C5_Witness ==
    \E r1, r2 \in returned :
        /\ SampleOf(r1).day = CivilDays(2025, 6, 15) /\ SampleOf(r1).sod = 1
        /\ SampleOf(r2).day = CivilDays(2025, 6, 15) /\ SampleOf(r2).sod = 86399

IsString(s) == s # <<>> /\ \A k \in 1..Len(s) : s[k] \in STRING

\* C6: no error outcome: no call ends in an exception, every call that has
\* started can take its next step, and what is returned is a record with
\* exactly the keys today, yesterday and yesterday_path, each a string.
C6_NoErrorOutcome ==
    /\ \A i \in Invocations : pc[i] # "raised"
    /\ \A i \in Invocations :
          pc[i] # "idle" => ENABLED Step(i)
    /\ \A r \in returned :
          /\ DOMAIN r.response = {"today", "yesterday", "yesterday_path"}
          /\ IsString(r.response.today)
          /\ IsString(r.response.yesterday)
          /\ IsString(r.response.yesterday_path)

\* a call that sampled the clock on the first day the clock can show has returned
C6_Witness ==
    \E r \in returned :
        /\ SampleOf(r).day = 0
        /\ DOMAIN r.response = {"today", "yesterday", "yesterday_path"}

\* C7: the record does not depend on event or context: two calls that sampled
\* the same instant return the same record whatever their arguments.
C7_ArgumentsIgnored ==
    \A r1, r2 \in returned :
        r1.samples = r2.samples => r1.response = r2.response

\* two calls with different events and different contexts sampled one instant
C7_Witness ==
    \E r1, r2 \in returned :
        /\ r1.samples = r2.samples
        /\ r1.event # r2.event
        /\ r1.context # r2.context

\* what one environment holds
Frame(i) ==
    <<pc[i], event[i], context[i], now_utc[i], today_midnight[i],
      yesterday_midnight[i], today_iso[i], yesterday_iso[i], yesterday_path[i],
      response[i], samples[i]>>

\* the record is the one its own sample determines
OwnRecord(r) ==
    /\ Len(r.samples) = 1
    /\ WellFormed(r)
    /\ DayOf(TodayOf(r)) = SampleOf(r).day /\ SecondOfDay(TodayOf(r)) = 0
    /\ DayOf(YesterdayOf(r)) = SampleOf(r).day - 1 /\ SecondOfDay(YesterdayOf(r)) = 0
    /\ r.response.yesterday_path =
          SubSeq(r.response.yesterday, 1, 4) \o <<"/">>
             \o SubSeq(r.response.yesterday, 6, 7) \o <<"/">>
             \o SubSeq(r.response.yesterday, 9, 10)

\* a step changes what at most one environment holds
OneFrameChanges ==
    \A i, j \in Invocations :
        (i # j /\ Frame(i)' # Frame(i)) => Frame(j)' = Frame(j)

\* C8: concurrent invocations never interact: under every interleaving each
\* call returns the record its own sample determines, and no step of one
\* call changes what another environment holds.
C8_NoInterference ==
    /\ [](\A r \in returned : OwnRecord(r))
    /\ [][OneFrameChanges]_vars

\* two calls are in flight at once, past their samples, taken on different days
C8_Witness ==
    \E i, j \in Invocations :
        /\ i # j
        /\ pc[i] \in {"subtract", "format_today", "format_yesterday"}
        /\ pc[j] \in {"format_path", "response", "print", "return"}
        /\ samples[i][1].day # samples[j][1].day

\* C9: each call samples the clock exactly once and derives all three fields
\* from that sample, so they stay consistent even when the clock passes a UTC
\* midnight between two steps of the call.
C9_SingleSample ==
    /\ \A i \in Invocations :
          /\ Len(samples[i]) <= 1
          /\ pc[i] \notin {"idle", "now"} => Len(samples[i]) = 1
          /\ pc[i] \in {"print", "return"} =>
                /\ DayOf(ParseISO(response[i].today)) = samples[i][1].day
                /\ SecondsBetween(ParseISO(response[i].today),
                                  ParseISO(response[i].yesterday)) = 86400
                /\ Number(SubSeq(response[i].yesterday_path, 1, 4)) =
                      ParseISO(response[i].yesterday).year
                /\ Number(SubSeq(response[i].yesterday_path, 6, 7)) =
                      ParseISO(response[i].yesterday).month
                /\ Number(SubSeq(response[i].yesterday_path, 9, 10)) =
                      ParseISO(response[i].yesterday).day
    /\ \A r \in returned : Len(r.samples) = 1

\* a call is about to return after the clock passed a midnight under it
C9_Witness ==
    \E i \in Invocations :
        /\ pc[i] = "return"
        /\ clock.day > samples[i][1].day

\* C10: calls on consecutive UTC days return ranges [yesterday, today) that
\* tile the timeline: the 'today' of day d is the 'yesterday' of day d+1, and
\* every range lies entirely before the instant it was computed at.
C10_RangesTile ==
    \A r1, r2 \in returned :
        /\ SampleOf(r2).day = SampleOf(r1).day + 1 =>
              r1.response.today = r2.response.yesterday
        /\ DayOf(YesterdayOf(r1)) < DayOf(TodayOf(r1))
        /\ (SampleOf(r1).day - DayOf(TodayOf(r1))) * (24 * 60 * 60)
              + SampleOf(r1).sod - SecondOfDay(TodayOf(r1)) >= 0

\* calls on 31 December and on the 1 January after it have returned
C10_Witness ==
    \E r1, r2 \in returned :
        /\ SampleOf(r1).day = CivilDays(2024, 12, 31)
        /\ SampleOf(r2).day = CivilDays(2025, 1, 1)

====
